---- MODULE Spec2Model ----
(***************************************************************************)
(* Application / Job lifecycle and scraping sessions of the                *)
(* autoapplyjob backend.                                                   *)
(*                                                                         *)
(* The stored collections (jobs, applications, user statistics, scraping   *)
(* logs) are the state.  Every controller handler is one action; a handler *)
(* reads documents, checks them, changes its in-memory copy and calls      *)
(* save().  Mongoose's save() of an existing document writes only the      *)
(* paths that were modified on the in-memory copy ($set) and appends the   *)
(* pushed array elements ($push); it does not compare the stored document  *)
(* with the copy that was read.  Spec runs every handler as one step;      *)
(* SpecConc lets two requests interleave between their reads and writes.   *)
(***************************************************************************)
EXTENDS Integers, Sequences, FiniteSets, TLC

\* ------------------------------------------------------------------ bounds
MaxApps == 2       \* Application documents stored at one time
MaxTimeline == 4   \* longest timeline an Application grows to
MaxStats == 2      \* highest stats.totalApplications a user reaches
MaxJobs == 2       \* Job documents ever inserted
MaxSessions == 2   \* ScrapingLog documents ever inserted
MaxPostings == 2   \* postings in one answer of the scraper
MaxList == 2       \* longest skills / preferredLocations list of a job or profile

\* --------------------------------------------------------------- constants
Users == {"u1", "u2"}
Admins == {"a1", "a2"}
Actors == Users \cup Admins
None == "none"                       \* an unset ObjectId (undefined)
NoUser == "u0"                       \* an id no User document has

AppIds == 1..MaxApps
JobIds == 1..MaxJobs

SessionIds == 1..MaxSessions

ApplicationStatuses ==
    {"pending_review", "approved", "rejected", "applied", "application_sent",
     "viewed", "interview_requested", "interview_scheduled",
     "interview_completed", "offer_received", "offer_accepted",
     "offer_rejected", "rejected_by_employer", "withdrawn"}

\* The statuses the admin's request bodies carry in the model: one of each
\* class the handlers tell apart (pending_review, approved, withdrawn, and the
\* rest, for which rejected stands).
StatusInputs ==
    {"pending_review", "approved", "rejected", "withdrawn"}

\* The user's status endpoint tells withdrawn from every other status.
UserStatusInputs == {"approved", "withdrawn"}

TerminalStatuses ==
    {"withdrawn", "rejected", "offer_rejected", "rejected_by_employer"}

ScrapingStatuses ==
    {"initiated", "in_progress", "completed", "failed", "cancelled"}

FinalStatuses == {"completed", "failed", "cancelled"}

\* The two revisions of the ScrapingLog schema: the error list is the path
\* "errors" in one and "errorDetails" in the other.
SchemaRevisions == {"errors", "errorDetails"}

OK == 200
BadRequest == 400
Forbidden == 403
NotFound == 404
Conflict == 409

VARIABLES
    jobs,       \* Job collection: JobIds -> Job document
    apps,       \* Application collection: AppIds -> Application document
    stats,      \* User.stats.totalApplications, per user
    reqs,       \* requests between their reads and their writes (SpecConc)
    users,      \* User documents: onboarding, package, lastJobScrapingRun
    logs,       \* ScrapingLog collection: SessionIds -> ScrapingLog document
    tasks,      \* the scraping task of each session: position and in-memory log
    cancels,    \* cancelScraping calls between their read and their write
    schema,     \* the ScrapingLog schema revision the build runs with
    scoring,    \* the job and profile handed to calculateMatchScore, its result
    response    \* the answer to the last search, listing or trigger request

vars == <<jobs, apps, stats, reqs, users, logs, tasks, cancels, schema, scoring, response>>

scrapeVars == <<users, logs, tasks, cancels, schema, scoring, response>>

Reqs == {"r1", "r2"}

\* -------------------------------------------------------------- documents
NoJob ==
    [exists |-> FALSE, targetUser |-> None, key |-> 0, status |-> "active",
     adminReviewStatus |-> "pending", applicationStatus |-> "not_applied",
     matchScore |-> 0]

NoApp ==
    [exists |-> FALSE, user |-> None, job |-> 0, status |-> "pending_review",
     matchScore |-> 0, reviewedBy |-> None, appliedBy |-> None,
     userNotes |-> FALSE, timeline |-> <<>>, held |-> {}, lastBy |-> None]


\* A Job as processScrapingResults stores it; key stands for the posting's
\* (title, company, location).
IngestedJob(u, key, score) ==
    [exists |-> TRUE, targetUser |-> u, key |-> key, status |-> "active",
     adminReviewStatus |-> "pending", applicationStatus |-> "not_applied",
     matchScore |-> score]

\* A User who finished onboarding and whose package has not expired, and one
\* who has not finished onboarding.
OnboardedUser ==
    [onboardingCompleted |-> TRUE, onboardingStep |-> "completed",
     packageExpired |-> FALSE, lastJobScrapingRun |-> FALSE]

NewUser ==
    [onboardingCompleted |-> FALSE, onboardingStep |-> "basic_info",
     packageExpired |-> FALSE, lastJobScrapingRun |-> FALSE]

\* A User whose package.expiresAt has passed.
ExpiredUser ==
    [onboardingCompleted |-> TRUE, onboardingStep |-> "completed",
     packageExpired |-> TRUE, lastJobScrapingRun |-> FALSE]

NoLog ==
    [exists |-> FALSE, user |-> None, status |-> "initiated",
     totalJobsFound |-> 0, jobsSaved |-> 0, duplicatesSkipped |-> 0,
     resultsErrors |-> 0, errors |-> 0, completedAt |-> FALSE]

IdleTask == [pc |-> "idle"]

\* The postings the scraper answers with: key stands for (title, company,
\* location), score for what calculateMatchScore yields for the posting, and
\* valid tells whether the Job built from it passes the schema's validation
\* (a posting without description or applyUrl does not).
Postings ==
    {[key |-> 1, score |-> 80, valid |-> TRUE],
     [key |-> 2, score |-> 40, valid |-> TRUE],
     [key |-> 2, score |-> 40, valid |-> FALSE]}

NoPosting == [key |-> 0, score |-> 0, valid |-> FALSE]

userType(actor) == IF actor \in Admins THEN "admin" ELSE "user"

\* ------------------------------------------------------------ match score
\* Strings are sequences of characters.  The skills stand for "python",
\* "Python", "sql" and "java"; the locations for "NY", "N", "nyc", "ny", "la".
Lists(S) == UNION {[1..k -> S] : k \in 0..MaxList}

Lower(c) ==
    CASE c = "P" -> "p" [] c = "N" -> "n" [] c = "Y" -> "y" [] OTHER -> c

toLowerCase(str) == [i \in DOMAIN str |-> Lower(str[i])]

\* String.prototype.includes
includes(str, sub) ==
    \E i \in 0..(Len(str) - Len(sub)) : SubSeq(str, i + 1, i + Len(sub)) = sub

JobInputs ==
    [skills : Lists({<<"p">>, <<"s">>}),
     location : {<<"N", "Y">>, <<"N">>, <<"n", "y", "c">>},
     workType : {"remote", "onsite"},
     jobType : {"full_time"}]

ProfileInputs ==
    [skills : Lists({<<"p">>, <<"P">>, <<"j">>}),
     preferredLocations : Lists({<<"n", "y">>, <<"l", "a">>}),
     preferredJobTypes : {{}, {"full_time"}},
     preferredWorkTypes : {{}, {"remote"}}]

\* Nothing handed to calculateMatchScore.
NoParts == [skills |-> [num |-> 0, den |-> 1], location |-> 0]

NoScoring ==
    [scored |-> FALSE,
     job |-> [skills |-> <<>>, location |-> <<>>, workType |-> "onsite",
              jobType |-> "full_time"],
     profile |-> [skills |-> <<>>, preferredLocations |-> <<>>,
                  preferredJobTypes |-> {}, preferredWorkTypes |-> {}],
     parts |-> NoParts, score |-> 0]

\* userSkills.filter((skill) => jobSkills.includes(skill)).length
matchingSkills(job, userProfile) ==
    LET jobSkills == [i \in DOMAIN job.skills |-> toLowerCase(job.skills[i])]
        userSkills == [i \in DOMAIN userProfile.skills |->
                          toLowerCase(userProfile.skills[i])]
    IN  Cardinality({i \in DOMAIN userSkills :
                        \E k \in DOMAIN jobSkills : jobSkills[k] = userSkills[i]})

\* The skills component, (matchingSkills.length / jobSkills.length) * 40, as
\* the fraction num / den.
skillsScore(job, userProfile) ==
    IF Len(job.skills) > 0 /\ Len(userProfile.skills) > 0
    THEN [num |-> 40 * matchingSkills(job, userProfile), den |-> Len(job.skills)]
    ELSE [num |-> 0, den |-> 1]

isLocationMatch(job, userProfile) ==
    \E i \in DOMAIN userProfile.preferredLocations :
        LET loc == userProfile.preferredLocations[i]
        IN  \/ includes(toLowerCase(job.location), toLowerCase(loc))
            \/ includes(toLowerCase(loc), toLowerCase(job.location))

\* The location component.
locationScore(job, userProfile) ==
    IF job.location # <<>> /\ Len(userProfile.preferredLocations) > 0
    THEN IF isLocationMatch(job, userProfile) \/ job.workType = "remote"
         THEN 20 ELSE 0
    ELSE 0

jobTypeScore(job, userProfile) ==
    IF job.jobType \in userProfile.preferredJobTypes THEN 20 ELSE 0

workTypeScore(job, userProfile) ==
    IF job.workType \in userProfile.preferredWorkTypes THEN 20 ELSE 0

\* Math.round of the non-negative fraction num / den.
Round(num, den) == (2 * num + den) \div (2 * den)

Min(a, b) == IF a <= b THEN a ELSE b

\* The sum before the cap, rounded.
roundedScore(job, userProfile) ==
    LET sk == skillsScore(job, userProfile)
        rest == locationScore(job, userProfile) + jobTypeScore(job, userProfile)
                + workTypeScore(job, userProfile)
    IN  Round(sk.num + rest * sk.den, sk.den)

\* A score without the cap at 100.
calculateMatchScore_NoCap(job, userProfile) == roundedScore(job, userProfile)

\* jobSchema.statics.calculateMatchScore
calculateMatchScore(job, userProfile) ==
    Min(roundedScore(job, userProfile), 100)

\* ------------------------------------------------------ Application model
\* Beside its stored fields an Application carries two history fields: held,
\* the statuses it has had, and lastBy, the account whose request wrote its
\* current status.
TimelineEntry(doc) ==
    [status |-> doc.status,
     updatedBy |-> IF doc.reviewedBy # None THEN doc.reviewedBy ELSE doc.appliedBy]

\* A hook that logs only the changes made with a reviewer or applier set.
PreSave_OnlyWithAdmin(loaded, doc, isNew) ==
    IF (isNew \/ doc.status # loaded.status)
       /\ (isNew \/ doc.reviewedBy # None \/ doc.appliedBy # None)
    THEN <<TimelineEntry(doc)>>
    ELSE <<>>

\* pre("save"): the entries the hook pushes for a document read as `loaded`
\* and changed to `doc`.
PreSave(loaded, doc, isNew) ==
    IF isNew \/ doc.status # loaded.status
    THEN <<TimelineEntry(doc)>>
    ELSE <<>>

\* save() of an existing document: modified paths are $set on the stored
\* document, the hook's entries are $push-ed.
SaveApplication(stored, loaded, doc, actor) ==
    LET pushed == PreSave(loaded, doc, FALSE)
        status == IF doc.status # loaded.status THEN doc.status ELSE stored.status
    IN  [stored EXCEPT
            !.status = status,
            !.reviewedBy = IF doc.reviewedBy # loaded.reviewedBy
                           THEN doc.reviewedBy ELSE @,
            !.appliedBy = IF doc.appliedBy # loaded.appliedBy
                          THEN doc.appliedBy ELSE @,
            !.userNotes = IF doc.userNotes # loaded.userNotes
                          THEN doc.userNotes ELSE @,
            !.timeline = @ \o pushed,
            !.held = @ \cup {status},
            !.lastBy = IF doc.status # loaded.status THEN actor ELSE @]

\* new Application({user, job, matchScore, status: "pending_review"}).save()
\* by the handler of u's request.
NewApplication(u, j, score) ==
    LET doc == [NoApp EXCEPT !.exists = TRUE, !.user = u, !.job = j,
                             !.status = "pending_review", !.matchScore = score]
    IN  [doc EXCEPT !.timeline = PreSave(NoApp, doc, TRUE),
                    !.held = {doc.status}, !.lastBy = u]

\* A lookup that only sees the Applications still pending review.
FindApplication_PendingOnly(u, j) ==
    LET m == {a \in AppIds : apps[a].exists /\ apps[a].user = u /\ apps[a].job = j
                             /\ apps[a].status = "pending_review"}
    IN  IF m = {} THEN 0 ELSE CHOOSE a \in m : \A b \in m : a <= b

\* Application.findOne({user, job}): the first stored match, 0 if none.
FindApplication(u, j) ==
    LET m == {a \in AppIds : apps[a].exists /\ apps[a].user = u /\ apps[a].job = j}
    IN  IF m = {} THEN 0 ELSE CHOOSE a \in m : \A b \in m : a <= b

\* Job.save() of an existing document: only the modified paths are written.
SaveJobDoc(stored, loaded, doc) ==
    [stored EXCEPT
        !.adminReviewStatus = IF doc.adminReviewStatus # loaded.adminReviewStatus
                              THEN doc.adminReviewStatus ELSE @,
        !.applicationStatus = IF doc.applicationStatus # loaded.applicationStatus
                              THEN doc.applicationStatus ELSE @]

JobExists(j) == j \in JobIds /\ jobs[j].exists
AppExists(a) == a \in AppIds /\ apps[a].exists

\* ------------------------------------------------------------ handlers
\* What a handler has decided once its reads and checks are done: the
\* response code and, when the checks passed, the documents it changed in
\* memory and is about to write.
Plan(op, actor, code) ==
    [op |-> op, actor |-> actor, code |-> code, message |-> None,
     app |-> 0, loaded |-> NoApp, doc |-> NoApp,
     insert |-> FALSE, remove |-> FALSE,
     job |-> 0, loadedJob |-> NoJob, jobDoc |-> NoJob,
     inc |-> None]

IdleReq == [op |-> "idle"]

\* The failure of a creation for a pair that has an Application: "You have
\* already saved or applied to this job", "You have already applied to this
\* job", "Job already saved/applied".
AlreadyApplied == "already applied"

Duplicate(op, actor, code) ==
    [Plan(op, actor, code) EXCEPT !.message = AlreadyApplied]

\* user.controller saveJob (rev 1) and its second revision (rev 2), which
\* differ in the codes of two failures.
SaveJobPlan(u, j, rev) ==
    LET op == "saveJob" IN
    IF ~JobExists(j) THEN Plan(op, u, NotFound)
    ELSE IF jobs[j].targetUser # u
         THEN Plan(op, u, IF rev = 1 THEN Forbidden ELSE NotFound)
    ELSE IF FindApplication(u, j) # 0
         THEN Duplicate(op, u, IF rev = 1 THEN Conflict ELSE BadRequest)
    ELSE [Plan(op, u, OK) EXCEPT
             !.insert = TRUE,
             !.doc = NewApplication(u, j, jobs[j].matchScore)]

\* user.controller unsaveJob (both revisions agree but for the message).
UnsaveJobPlan(u, j) ==
    LET op == "unsaveJob"
        m == {b \in AppIds : apps[b].exists /\ apps[b].user = u /\ apps[b].job = j
                              /\ apps[b].status = "pending_review"}
    IN  IF m = {} THEN Plan(op, u, NotFound)
        ELSE [Plan(op, u, OK) EXCEPT
                 !.remove = TRUE,
                 !.app = CHOOSE b \in m : \A c \in m : b <= c]

\* job.controller applyToJob
JobAvailable(job) == job.status = "active" /\ job.adminReviewStatus = "approved"

ApplyToJobPlan(u, j) ==
    LET op == "applyToJob" IN
    IF ~JobExists(j) THEN Plan(op, u, NotFound)
    ELSE IF jobs[j].targetUser # u THEN Plan(op, u, NotFound)
    ELSE IF ~JobAvailable(jobs[j]) THEN Plan(op, u, BadRequest)
    ELSE IF FindApplication(u, j) # 0 THEN Duplicate(op, u, BadRequest)
    ELSE [Plan(op, u, OK) EXCEPT
             !.insert = TRUE,
             !.doc = NewApplication(u, j, jobs[j].matchScore),
             !.job = j,
             !.loadedJob = jobs[j],
             !.jobDoc = [jobs[j] EXCEPT !.applicationStatus = "not_applied"]]

\* A lookup by _id alone, whoever owns the Application.
OwnApplication_AnyUser(u, a) == AppExists(a)

\* application.controller updateApplicationStatus (the user's endpoint)
OwnApplication(u, a) == AppExists(a) /\ apps[a].user = u

UserUpdateStatusPlan(u, a, status) ==
    LET op == "updateApplicationStatus" IN
    IF status # "withdrawn" THEN Plan(op, u, BadRequest)
    ELSE IF ~OwnApplication(u, a) THEN Plan(op, u, NotFound)
    ELSE IF apps[a].status = "withdrawn" THEN Plan(op, u, BadRequest)
    ELSE [Plan(op, u, OK) EXCEPT
             !.app = a, !.loaded = apps[a],
             !.doc = [apps[a] EXCEPT !.status = status]]

\* A withdrawal that does not look at the current status.
WithdrawPlan_NoStatusCheck(u, a) ==
    LET op == "withdrawApplication" IN
    IF ~OwnApplication(u, a) THEN Plan(op, u, NotFound)
    ELSE [Plan(op, u, OK) EXCEPT
             !.app = a, !.loaded = apps[a],
             !.doc = [apps[a] EXCEPT !.status = "withdrawn"]]

\* application.controller withdrawApplication
WithdrawPlan(u, a) ==
    LET op == "withdrawApplication" IN
    IF ~OwnApplication(u, a) THEN Plan(op, u, NotFound)
    ELSE IF apps[a].status = "withdrawn" THEN Plan(op, u, BadRequest)
    ELSE [Plan(op, u, OK) EXCEPT
             !.app = a, !.loaded = apps[a],
             !.doc = [apps[a] EXCEPT !.status = "withdrawn"]]

\* application.controller addApplicationNotes; userNotes tells whether the
\* Application holds notes written through this endpoint.
AddNotesPlan(u, a) ==
    LET op == "addApplicationNotes" IN
    IF ~OwnApplication(u, a) THEN Plan(op, u, NotFound)
    ELSE [Plan(op, u, OK) EXCEPT
             !.app = a, !.loaded = apps[a],
             !.doc = [apps[a] EXCEPT !.userNotes = TRUE]]

\* admin.controller updateApplicationStatus
AdminUpdateStatusPlan(ad, a, status) ==
    LET op == "adminUpdateApplicationStatus" IN
    IF ~AppExists(a) THEN Plan(op, ad, NotFound)
    ELSE [Plan(op, ad, OK) EXCEPT
             !.app = a, !.loaded = apps[a],
             !.doc = [apps[a] EXCEPT !.status = status, !.reviewedBy = ad]]

\* A gate that only refuses rejected Applications.
CanApplyOnBehalf_NotRejected(doc) == doc.status # "rejected"

\* admin.controller applyToJobOnBehalf
CanApplyOnBehalf(doc) == doc.status = "approved"

ApplyOnBehalfPlan(ad, u, j) ==
    LET op == "applyToJobOnBehalf"
        a == FindApplication(u, j)
    IN  IF u \notin Users THEN Plan(op, ad, NotFound)
        ELSE IF ~JobExists(j) THEN Plan(op, ad, NotFound)
        ELSE IF jobs[j].targetUser # u THEN Plan(op, ad, BadRequest)
        ELSE IF a = 0 THEN Plan(op, ad, NotFound)
        ELSE IF ~CanApplyOnBehalf(apps[a]) THEN Plan(op, ad, BadRequest)
        ELSE [Plan(op, ad, OK) EXCEPT
                 !.app = a, !.loaded = apps[a],
                 !.doc = [apps[a] EXCEPT !.status = "applied", !.appliedBy = ad],
                 !.job = j, !.loadedJob = jobs[j],
                 !.jobDoc = [jobs[j] EXCEPT !.applicationStatus = "applied"],
                 !.inc = u]

\* admin.controller approveJob / rejectJob
ReviewJobPlan(ad, j, verdict) ==
    LET op == IF verdict = "approved" THEN "approveJob" ELSE "rejectJob" IN
    IF ~JobExists(j) THEN Plan(op, ad, NotFound)
    ELSE [Plan(op, ad, OK) EXCEPT
             !.job = j, !.loadedJob = jobs[j],
             !.jobDoc = [jobs[j] EXCEPT !.adminReviewStatus = verdict]]

\* The writes of a handler whose checks passed, in the order of its awaits:
\* the Application (insert, deleteOne or save), the Job, the user's counter.
\* save() of a document that is no longer stored throws
\* (DocumentNotFoundError) and the handler's later writes do not happen.
SaveThrows(p) == p.app # 0 /\ ~p.remove /\ ~apps[p.app].exists

\* The slots a new Application may take: those holding no document and
\* referred to by no request in flight.
FreeApps ==
    {a \in AppIds : /\ ~apps[a].exists
                    /\ \A r \in Reqs : reqs[r].op = "idle" \/ reqs[r].app # a}

WriteApps(p) ==
    IF p.insert
    THEN [apps EXCEPT ![CHOOSE a \in FreeApps : \A b \in FreeApps : a <= b] = p.doc]
    ELSE IF p.app = 0 \/ ~apps[p.app].exists THEN apps
    ELSE IF p.remove THEN [apps EXCEPT ![p.app] = NoApp]
    ELSE [apps EXCEPT ![p.app] = SaveApplication(@, p.loaded, p.doc, p.actor)]

Execute(p) ==
    /\ p.insert => FreeApps # {}
    /\ p.inc # None => stats[p.inc] < MaxStats
    /\ IF SaveThrows(p)
       THEN UNCHANGED <<jobs, apps, stats>>
       ELSE /\ apps' = WriteApps(p)
            /\ \A a \in AppIds : Len(apps'[a].timeline) <= MaxTimeline
            /\ jobs' = IF p.job = 0 THEN jobs
                       ELSE [jobs EXCEPT ![p.job] = SaveJobDoc(@, p.loadedJob, p.jobDoc)]
            /\ stats' = IF p.inc = None THEN stats
                        ELSE [stats EXCEPT ![p.inc] = @ + 1]

\* A handler run as one step: its checks and, if they pass, its writes.  A
\* handler whose checks fail throws before any write and answers p.code.
Handle(p) ==
    /\ IF p.code = OK
       THEN Execute(p)
       ELSE UNCHANGED <<jobs, apps, stats>>
    /\ UNCHANGED <<reqs, scrapeVars>>

\* A gate that lets every account through.
RequireAdminPlan_Anyone(actor) == Plan("requireAdmin", actor, OK)

\* auth.middleware requireAdmin, which the admin router runs before every
\* handler of admin.controller.
RequireAdminPlan(actor) ==
    IF userType(actor) # "admin"
    THEN Plan("requireAdmin", actor, Forbidden)
    ELSE Plan("requireAdmin", actor, OK)

\* The ids requests carry: those of the stored documents and one id (0) that
\* no document has.
JobIdInputs == {j \in JobIds : jobs[j].exists} \cup {0}
AppIdInputs == {a \in AppIds : apps[a].exists} \cup {0}

\* The user's endpoints (any authenticated account may call them; the model
\* lets the two user accounts call them, u2 owning no Job).
SaveJob == \E u \in Users, j \in JobIdInputs, rev \in {1, 2} : Handle(SaveJobPlan(u, j, rev))
UnsaveJob == \E u \in Users, j \in JobIdInputs : Handle(UnsaveJobPlan(u, j))
ApplyToJob == \E u \in Users, j \in JobIdInputs : Handle(ApplyToJobPlan(u, j))
UserUpdateStatus ==
    \E u \in Users, a \in AppIdInputs, s \in UserStatusInputs :
        Handle(UserUpdateStatusPlan(u, a, s))
WithdrawApplication == \E u \in Users, a \in AppIdInputs : Handle(WithdrawPlan(u, a))
AddApplicationNotes == \E u \in Users, a \in AppIdInputs : Handle(AddNotesPlan(u, a))

\* The admin router's endpoints, called by any account.
AdminUpdateStatus ==
    \E ad \in Actors :
        IF RequireAdminPlan(ad).code # OK THEN Handle(RequireAdminPlan(ad))
        ELSE \E a \in AppIdInputs, s \in StatusInputs : Handle(AdminUpdateStatusPlan(ad, a, s))
ApplyToJobOnBehalf ==
    \E ad \in Actors :
        IF RequireAdminPlan(ad).code # OK THEN Handle(RequireAdminPlan(ad))
        ELSE \E u \in Users \cup {NoUser}, j \in JobIdInputs :
                 Handle(ApplyOnBehalfPlan(ad, u, j))
ApproveJob ==
    \E ad \in Actors :
        IF RequireAdminPlan(ad).code # OK THEN Handle(RequireAdminPlan(ad))
        ELSE \E j \in JobIdInputs : Handle(ReviewJobPlan(ad, j, "approved"))
RejectJob ==
    \E ad \in Actors :
        IF RequireAdminPlan(ad).code # OK THEN Handle(RequireAdminPlan(ad))
        ELSE \E j \in JobIdInputs : Handle(ReviewJobPlan(ad, j, "rejected"))

\* ------------------------------------------------------ search and listing
\* The answer to a request: the caller, the user the request is about, the
\* status code and the Job documents returned (lean copies).
NoResponse ==
    [op |-> "none", caller |-> None, target |-> None, code |-> OK, jobs |-> <<>>]

Anonymous == "anonymous"             \* a request without a token (optionalAuth)

\* Job.find(filter).sort({[sortBy]: order}): the ids of the matching Jobs,
\* ordered by matchScore, Jobs with equal scores by _id.
SortJobs(S, sortOrder) ==
    LET Before(j, k) ==
            \/ IF sortOrder = "desc" THEN jobs[j].matchScore > jobs[k].matchScore
                                      ELSE jobs[j].matchScore < jobs[k].matchScore
            \/ jobs[j].matchScore = jobs[k].matchScore /\ j < k
    IN  CHOOSE seq \in [1..Cardinality(S) -> S] :
            \A a, b \in 1..Cardinality(S) : a < b => Before(seq[a], seq[b])

\* .skip((page - 1) * pageSize).limit(pageSize).lean()
Page(seq, page, pageSize) ==
    LET skip == (page - 1) * pageSize
        ids == SubSeq(seq, skip + 1, Min(skip + pageSize, Len(seq)))
    IN  [i \in DOMAIN ids |-> jobs[ids[i]]]

\* job.controller searchJobs: the filter's fixed part and the optional userId.
SearchFilter(userId) ==
    {j \in JobIds : /\ jobs[j].exists
                    /\ jobs[j].status = "active"
                    /\ jobs[j].adminReviewStatus = "approved"
                    /\ userId # None => jobs[j].targetUser = userId}

\* user.controller getJobs: adminReviewStatus is read from the query string
\* (approved when absent); the status parameter filters applicationStatus in
\* the first revision and status in the second.
GetJobsFilter(u, adminReviewStatus, status, rev) ==
    {j \in JobIds : /\ jobs[j].exists
                    /\ jobs[j].targetUser = u
                    /\ jobs[j].adminReviewStatus = adminReviewStatus
                    /\ status # None =>
                          IF rev = 1 THEN jobs[j].applicationStatus = status
                                     ELSE jobs[j].status = status}

Pages == 1..2
PageSizes == 1..MaxJobs

SearchJobs ==
    \E caller \in Users \cup {Anonymous}, userId \in Users \cup {None},
       page \in Pages, pageSize \in PageSizes, sortOrder \in {"asc", "desc"} :
        /\ response' = [op |-> "searchJobs", caller |-> caller,
                        target |-> userId, code |-> OK,
                        jobs |-> Page(SortJobs(SearchFilter(userId), sortOrder),
                                     page, pageSize)]
        /\ UNCHANGED <<jobs, apps, stats, reqs, users, logs, tasks, cancels,
                       schema, scoring>>

GetJobs ==
    \E u \in Users, rev \in {1, 2},
       adminReviewStatus \in {"approved", "pending", "rejected"},
       status \in {None, "active", "applied"},
       page \in Pages, pageSize \in PageSizes, sortOrder \in {"asc", "desc"} :
        /\ response' = [op |-> "getJobs", caller |-> u,
                        target |-> u, code |-> OK,
                        jobs |-> Page(SortJobs(GetJobsFilter(u, adminReviewStatus,
                                                            status, rev),
                                              sortOrder),
                                     page, pageSize)]
        /\ UNCHANGED <<jobs, apps, stats, reqs, users, logs, tasks, cancels,
                       schema, scoring>>

\* job.controller getJobDetails behind optionalAuth: the ownership check runs
\* only for a request that carries a user; the Job is answered with its
\* applicationStatus replaced by the status of the caller's Application.
GetJobDetails ==
    \E caller \in Actors \cup {Anonymous}, id \in JobIdInputs :
        LET answer(code, found) ==
                [op |-> "getJobDetails", caller |-> caller, target |-> None,
                 code |-> code, jobs |-> found]
            a == IF caller = Anonymous THEN 0 ELSE FindApplication(caller, id)
        IN  /\ response' =
                  IF ~JobExists(id) THEN answer(NotFound, <<>>)
                  ELSE IF /\ caller # Anonymous
                          /\ jobs[id].targetUser # caller
                          /\ userType(caller) # "admin"
                       THEN answer(NotFound, <<>>)
                  ELSE answer(OK, <<[jobs[id] EXCEPT !.applicationStatus =
                                        IF a # 0 THEN apps[a].status ELSE None]>>)
            /\ UNCHANGED <<jobs, apps, stats, reqs, users, logs, tasks, cancels,
                           schema, scoring>>

\* job.controller getScrapedJobs behind authenticate: the Jobs of the user
\* named in the path, for that user or an admin.
ScrapedJobsFilter(userId, status, adminReviewStatus) ==
    {j \in JobIds : /\ jobs[j].exists
                    /\ jobs[j].targetUser = userId
                    /\ status # None => jobs[j].status = status
                    /\ adminReviewStatus # None
                          => jobs[j].adminReviewStatus = adminReviewStatus}

GetScrapedJobs ==
    \E requestingUser \in Actors, userId \in Users,
       status \in {None, "active"}, adminReviewStatus \in {None, "pending"},
       page \in Pages, pageSize \in PageSizes, sortOrder \in {"asc", "desc"} :
        LET answer(code, found) ==
                [op |-> "getScrapedJobs", caller |-> requestingUser,
                 target |-> userId, code |-> code, jobs |-> found]
        IN  /\ response' =
                  IF userType(requestingUser) # "admin" /\ requestingUser # userId
                  THEN answer(Forbidden, <<>>)
                  ELSE answer(OK, Page(SortJobs(ScrapedJobsFilter(userId, status,
                                                                 adminReviewStatus),
                                                sortOrder),
                                       page, pageSize))
            /\ UNCHANGED <<jobs, apps, stats, reqs, users, logs, tasks, cancels,
                           schema, scoring>>

\* ------------------------------------------------------ scraping sessions
\* scraping.service.  A session is a ScrapingLog document and the task that
\* scheduleJobScraping starts for it without awaiting it; the task keeps the
\* document it created in memory and saves it at each stage, one step per
\* await.  tasks[s].saved is the in-memory status as of the task's last
\* save, tasks[s].status the in-memory status now; a task that has ended
\* keeps only its position ("done", or "dead" when it ended by throwing).
canUserScrapeJobs(user) == ~user.packageExpired

LogExists(s) == s \in SessionIds /\ logs[s].exists

FreeSessions == {s \in SessionIds : ~logs[s].exists}
FreeJobs == {j \in JobIds : ~jobs[j].exists}

\* scrapingLog.errors.push(...): the path exists in the revision that names
\* it "errors"; in the other one scrapingLog.errors is undefined and the
\* call throws a TypeError.
ErrorsPushThrows == schema # "errors"

\* save() of the task's in-memory ScrapingLog: the status is written when it
\* was changed in memory since the last save, whatever the stored one is.
\* The results object holds the scraper's totalJobsFound, the loop's two
\* counters and errors, the length of the scraper's error list; the revision
\* whose results have no errors path (errorCount instead) drops that key.
SaveLog(stored, task, results) ==
    [stored EXCEPT
        !.status = IF task.status # task.saved THEN task.status ELSE @,
        !.totalJobsFound = IF results THEN task.totalJobsFound ELSE @,
        !.jobsSaved = IF results THEN task.jobsSaved ELSE @,
        !.duplicatesSkipped = IF results THEN task.duplicatesSkipped ELSE @,
        !.resultsErrors = IF results /\ task.reported /\ schema = "errors"
                          THEN 1 ELSE @,
        !.errors = @ + task.pushed,
        !.completedAt = TRUE]

\* scheduleJobScraping past its gate: the ScrapingLog is saved with status
\* initiated and performJobScraping is started, not awaited.
CreateSession(u) ==
    /\ FreeSessions # {}
    /\ LET s == CHOOSE t \in FreeSessions : \A v \in FreeSessions : t <= v
       IN  /\ logs' = [logs EXCEPT ![s] =
                          [NoLog EXCEPT !.exists = TRUE, !.user = u]]
           /\ tasks' = [tasks EXCEPT ![s] =
                           [pc |-> "perform", user |-> u,
                            status |-> "initiated", saved |-> "initiated",
                            remaining |-> 0, posting |-> NoPosting,
                            reported |-> FALSE, totalJobsFound |-> 0,
                            jobsSaved |-> 0, duplicatesSkipped |-> 0,
                            pushed |-> 0]]

\* scheduleJobScraping called by the profile, settings and onboarding
\* handlers, which do not await it and only log its rejection.
ScheduleJobScraping ==
    \E u \in Users \cup {NoUser} :
        IF u \notin Users \/ ~users[u].onboardingCompleted
              \/ ~canUserScrapeJobs(users[u])
        THEN UNCHANGED vars
        ELSE /\ CreateSession(u)
             /\ UNCHANGED <<jobs, apps, stats, reqs, users, cancels, schema, scoring, response>>

\* job.controller triggerJobScraping behind requireAdmin: its own checks, then
\* triggerManualScraping, which awaits scheduleJobScraping and answers with
\* the sessionId it returns (undefined when the gate skipped the user).
TriggerJobScraping ==
    \E ad \in Actors, u \in Users \cup {NoUser} :
        LET answer(code) == [op |-> "triggerJobScraping", caller |-> ad,
                             target |-> u, code |-> code, jobs |-> <<>>]
        IN  IF RequireAdminPlan(ad).code # OK \/ u \notin Users
                  \/ ~users[u].onboardingCompleted
                  \/ ~canUserScrapeJobs(users[u])
            THEN /\ response' =
                       answer(IF RequireAdminPlan(ad).code # OK THEN Forbidden
                              ELSE IF u \notin Users THEN NotFound
                              ELSE IF ~users[u].onboardingCompleted THEN BadRequest
                              ELSE OK)
                 /\ UNCHANGED <<jobs, apps, stats, reqs, users, logs, tasks,
                                cancels, schema, scoring>>
            ELSE /\ CreateSession(u)
                 /\ response' = answer(OK)
                 /\ UNCHANGED <<jobs, apps, stats, reqs, users, cancels, schema,
                                scoring>>

\* performJobScraping up to its first await: status in_progress, save().
PerformJobScraping ==
    \E s \in SessionIds :
        /\ tasks[s].pc = "perform"
        /\ LET t == [tasks[s] EXCEPT !.status = "in_progress"]
           IN  /\ logs' = [logs EXCEPT ![s].status =
                               IF t.status # t.saved THEN t.status ELSE @]
               /\ tasks' = [tasks EXCEPT ![s] =
                               [t EXCEPT !.pc = "request", !.saved = t.status]]
        /\ UNCHANGED <<jobs, apps, stats, reqs, users, cancels, schema, scoring, response>>

\* The answer of the scraper service: n postings, totalJobsFound (the
\* service counts the postings it answers) and, possibly, one error it
\* reports.  What each posting holds is drawn when the loop reaches it.
ScraperAnswers ==
    \E s \in SessionIds, n \in 0..MaxPostings, e \in BOOLEAN :
        /\ tasks[s].pc = "request"
        /\ tasks' = [tasks EXCEPT ![s].pc = IF n = 0 THEN "complete" ELSE "find",
                                  ![s].remaining = n,
                                  ![s].totalJobsFound = n,
                                  ![s].reported = e]
        /\ UNCHANGED <<jobs, apps, stats, reqs, users, logs, cancels, schema, scoring, response>>

\* axios.post throws (the service is down, answers an error or times out).
ScraperFails ==
    \E s \in SessionIds :
        /\ tasks[s].pc = "request"
        /\ tasks' = [tasks EXCEPT ![s].pc = "catch"]
        /\ UNCHANGED <<jobs, apps, stats, reqs, users, logs, cancels, schema, scoring, response>>

AfterPosting(t) ==
    [t EXCEPT !.remaining = @ - 1, !.posting = NoPosting,
              !.pc = IF t.remaining = 1 THEN "complete" ELSE "find"]

\* A duplicate check that only finds the Jobs an admin has approved.
ExistingJob_ApprovedOnly(u, key) ==
    \E j \in JobIds :
        /\ jobs[j].exists /\ jobs[j].targetUser = u /\ jobs[j].key = key
        /\ jobs[j].adminReviewStatus = "approved"

\* Job.findOne({targetUser, title, company, location}): whether a Job of the
\* user holds the posting's (title, company, location).
ExistingJob(u, key) ==
    \E j \in JobIds :
        jobs[j].exists /\ jobs[j].targetUser = u /\ jobs[j].key = key

\* The duplicate check of the loop for the next posting.
FindExistingJob ==
    \E s \in SessionIds, p \in Postings :
        /\ tasks[s].pc = "find"
        /\ LET t == tasks[s]
               existingJob == ExistingJob(t.user, p.key)
           IN  tasks' = [tasks EXCEPT ![s] =
                   IF existingJob
                   THEN AfterPosting([t EXCEPT !.duplicatesSkipped = @ + 1])
                   ELSE [t EXCEPT !.pc = "create", !.posting = p]]
        /\ UNCHANGED <<jobs, apps, stats, reqs, users, logs, cancels, schema, scoring, response>>

\* new Job({...}).save() for the posting, and the catch around it.
CreateJob ==
    \E s \in SessionIds :
        /\ tasks[s].pc = "create"
        /\ LET t == tasks[s]
               p == t.posting
           IN  IF p.valid
               THEN /\ FreeJobs # {}
                    /\ LET j == CHOOSE k \in FreeJobs : \A m \in FreeJobs : k <= m
                       IN  jobs' = [jobs EXCEPT ![j] = IngestedJob(t.user, p.key, p.score)]
                    /\ tasks' = [tasks EXCEPT ![s] =
                                    AfterPosting([t EXCEPT !.jobsSaved = @ + 1])]
               ELSE /\ jobs' = jobs
                    /\ tasks' = [tasks EXCEPT ![s] =
                                    IF ErrorsPushThrows
                                    THEN [t EXCEPT !.pc = "catch"]
                                    ELSE AfterPosting([t EXCEPT !.pushed = @ + 1])]
        /\ UNCHANGED <<apps, stats, reqs, users, logs, cancels, schema, scoring, response>>

\* processScrapingResults after the loop: status completed, the results, the
\* reported errors, save().
CompleteScraping ==
    \E s \in SessionIds :
        /\ tasks[s].pc = "complete"
        /\ LET t == [tasks[s] EXCEPT !.status = "completed"]
           IN  IF t.reported /\ ErrorsPushThrows
               THEN /\ tasks' = [tasks EXCEPT ![s] = [t EXCEPT !.pc = "catch"]]
                    /\ logs' = logs
               ELSE LET u == [t EXCEPT !.pushed = IF t.reported THEN @ + 1 ELSE @]
                    IN  /\ logs' = [logs EXCEPT ![s] = SaveLog(@, u, TRUE)]
                        /\ tasks' = [tasks EXCEPT ![s] =
                                        [u EXCEPT !.pc = "touch", !.saved = u.status,
                                                  !.pushed = 0]]
        /\ UNCHANGED <<jobs, apps, stats, reqs, users, cancels, schema, scoring, response>>

\* User.findByIdAndUpdate(userId, {lastJobScrapingRun}), which succeeds or
\* throws.
TouchUser ==
    \E s \in SessionIds, thrown \in BOOLEAN :
        /\ tasks[s].pc = "touch"
        /\ tasks' = [tasks EXCEPT ![s] = IF thrown THEN [@ EXCEPT !.pc = "catch"]
                                         ELSE [pc |-> "done"]]
        /\ users' = IF thrown THEN users
                    ELSE [users EXCEPT ![tasks[s].user].lastJobScrapingRun = TRUE]
        /\ UNCHANGED <<jobs, apps, stats, reqs, logs, cancels, schema, scoring, response>>

\* The catch of performJobScraping: status failed, errors.push, save().  When
\* the push throws, the task ends there with nothing saved.
CatchScrapingError ==
    \E s \in SessionIds :
        /\ tasks[s].pc = "catch"
        /\ LET t == [tasks[s] EXCEPT !.status = "failed"]
           IN  IF ErrorsPushThrows
               THEN /\ tasks' = [tasks EXCEPT ![s] = [pc |-> "dead"]]
                    /\ logs' = logs
               ELSE LET u == [t EXCEPT !.pushed = @ + 1]
                    IN  /\ logs' = [logs EXCEPT ![s] = SaveLog(@, u, FALSE)]
                        /\ tasks' = [tasks EXCEPT ![s] = [pc |-> "done"]]
        /\ UNCHANGED <<jobs, apps, stats, reqs, users, cancels, schema, scoring, response>>

\* cancelScraping up to its save(): findOne and the status check.  A caller
\* knows a sessionId once scheduleJobScraping has returned it, which is
\* after the task issued its first save.
CancelAllowed(log) == log.status # "completed" /\ log.status # "failed"

BeginCancelScraping ==
    \E s \in SessionIds \cup {0} :
        /\ IF ~LogExists(s) \/ ~CancelAllowed(logs[s])
           THEN cancels' = cancels
           ELSE /\ tasks[s].pc # "perform"
                /\ cancels[s] = None
                /\ cancels' = [cancels EXCEPT ![s] = logs[s].status]
        /\ UNCHANGED <<jobs, apps, stats, reqs, users, logs, tasks, schema, scoring, response>>

\* cancelScraping's save(): status cancelled (written when the document
\* read was not cancelled already) and timing.completedAt.
CommitCancelScraping ==
    \E s \in SessionIds :
        /\ cancels[s] # None
        /\ logs' = [logs EXCEPT ![s].status =
                        IF cancels[s] # "cancelled" THEN "cancelled" ELSE @,
                                ![s].completedAt = TRUE]
        /\ cancels' = [cancels EXCEPT ![s] = None]
        /\ UNCHANGED <<jobs, apps, stats, reqs, users, tasks, schema, scoring, response>>

\* ------------------------------------------------------- specification
\* The store after a scraping session has ingested one posting for user u1:
\* the Job active and awaiting admin review, no Application yet.
Init ==
    /\ jobs = [j \in JobIds |-> IF j = 1 THEN IngestedJob("u1", 1, 80) ELSE NoJob]
    /\ apps = [a \in AppIds |-> NoApp]
    /\ stats = [u \in Users |-> 0]
    /\ reqs = [r \in Reqs |-> IdleReq]
    /\ users = [u \in Users |-> OnboardedUser]
    /\ logs = [s \in SessionIds |-> NoLog]
    /\ tasks = [s \in SessionIds |-> IdleTask]
    /\ cancels = [s \in SessionIds |-> None]
    /\ schema = "errors"
    /\ scoring = NoScoring
    /\ response = NoResponse

Next ==
    \/ SaveJob
    \/ UnsaveJob
    \/ ApplyToJob
    \/ UserUpdateStatus
    \/ WithdrawApplication
    \/ AdminUpdateStatus
    \/ ApplyToJobOnBehalf
    \/ ApproveJob
    \/ RejectJob

Spec == Init /\ [][Next]_vars

\* Two requests in flight.  A request does its reads and checks in one step
\* (Begin) and its writes in a later one (Commit), as the handler does across
\* its awaits.  SpecConc interleaves the requests that create an Application
\* and those that apply on behalf; the admin's approvals of the Job and of
\* the Application, which those requests need, run as single steps.
Begin(r, p) ==
    /\ reqs[r].op = "idle"
    /\ reqs' = [reqs EXCEPT ![r] = IF p.code = OK THEN p ELSE IdleReq]
    /\ UNCHANGED <<jobs, apps, stats, scrapeVars>>

BeginSaveJob ==
    \E r \in Reqs, u \in Users, j \in JobIdInputs, rev \in {1, 2} :
        Begin(r, SaveJobPlan(u, j, rev))
BeginApplyToJob ==
    \E r \in Reqs, u \in Users, j \in JobIdInputs : Begin(r, ApplyToJobPlan(u, j))
BeginApplyToJobOnBehalf ==
    \E r \in Reqs, ad \in Admins, u \in Users, j \in JobIdInputs :
        Begin(r, ApplyOnBehalfPlan(ad, u, j))

Commit ==
    \E r \in Reqs :
        /\ reqs[r].op # "idle"
        /\ Execute(reqs[r])
        /\ reqs' = [reqs EXCEPT ![r] = IdleReq]
        /\ UNCHANGED scrapeVars

ApproveApplication ==
    \E ad \in Admins, a \in AppIdInputs :
        Handle(AdminUpdateStatusPlan(ad, a, "approved"))

NextConc ==
    \/ BeginSaveJob
    \/ BeginApplyToJob
    \/ BeginApplyToJobOnBehalf
    \/ Commit
    \/ ApproveJob
    \/ ApproveApplication

SpecConc == Init /\ [][NextConc]_vars

\* Scraping sessions: an empty store, one user who finished onboarding and
\* one who did not, either schema revision; the tasks of the sessions and
\* the cancelScraping calls interleave at their awaits.
InitScrape ==
    /\ jobs = [j \in JobIds |-> NoJob]
    /\ apps = [a \in AppIds |-> NoApp]
    /\ stats = [u \in Users |-> 0]
    /\ reqs = [r \in Reqs |-> IdleReq]
    /\ users = [u \in Users |-> IF u = "u1" THEN OnboardedUser ELSE NewUser]
    /\ logs = [s \in SessionIds |-> NoLog]
    /\ tasks = [s \in SessionIds |-> IdleTask]
    /\ cancels = [s \in SessionIds |-> None]
    /\ schema \in SchemaRevisions
    /\ scoring = NoScoring
    /\ response = NoResponse

NextScrape ==
    \/ ScheduleJobScraping
    \/ PerformJobScraping
    \/ ScraperAnswers
    \/ ScraperFails
    \/ FindExistingJob
    \/ CreateJob
    \/ CompleteScraping
    \/ TouchUser
    \/ CatchScrapingError
    \/ BeginCancelScraping
    \/ CommitCancelScraping

SpecScrape == InitScrape /\ [][NextScrape]_vars

\* Scraping sessions one after the other: a session is scheduled once the
\* task of the one before has ended.  Both users have finished onboarding.
TaskEnded(s) == tasks[s].pc \in {"idle", "done", "dead"}

ScheduleNextScraping ==
    /\ \A s \in SessionIds : TaskEnded(s)
    /\ ScheduleJobScraping

InitIngest ==
    /\ jobs = [j \in JobIds |-> NoJob]
    /\ apps = [a \in AppIds |-> NoApp]
    /\ stats = [u \in Users |-> 0]
    /\ reqs = [r \in Reqs |-> IdleReq]
    /\ users = [u \in Users |-> OnboardedUser]
    /\ logs = [s \in SessionIds |-> NoLog]
    /\ tasks = [s \in SessionIds |-> IdleTask]
    /\ cancels = [s \in SessionIds |-> None]
    /\ schema \in SchemaRevisions
    /\ scoring = NoScoring
    /\ response = NoResponse

NextIngest ==
    \/ ScheduleNextScraping
    \/ PerformJobScraping
    \/ ScraperAnswers
    \/ ScraperFails
    \/ FindExistingJob
    \/ CreateJob
    \/ CompleteScraping
    \/ TouchUser
    \/ CatchScrapingError

SpecIngest == InitIngest /\ [][NextIngest]_vars

\* The same sessions, started by either trigger path: the handlers that
\* schedule a session after a profile change, and the admin's trigger
\* endpoint.  The users are in any of the states the eligibility gate tells
\* apart.
InitTrigger ==
    /\ jobs = [j \in JobIds |-> NoJob]
    /\ apps = [a \in AppIds |-> NoApp]
    /\ stats = [u \in Users |-> 0]
    /\ reqs = [r \in Reqs |-> IdleReq]
    /\ users \in [Users -> {OnboardedUser, NewUser, ExpiredUser}]
    /\ logs = [s \in SessionIds |-> NoLog]
    /\ tasks = [s \in SessionIds |-> IdleTask]
    /\ cancels = [s \in SessionIds |-> None]
    /\ schema \in SchemaRevisions
    /\ scoring = NoScoring
    /\ response = NoResponse

TriggerNextScraping ==
    /\ \A s \in SessionIds : TaskEnded(s)
    /\ TriggerJobScraping

NextTrigger ==
    \/ ScheduleNextScraping
    \/ TriggerNextScraping
    \/ PerformJobScraping
    \/ ScraperAnswers
    \/ ScraperFails
    \/ FindExistingJob
    \/ CreateJob
    \/ CompleteScraping
    \/ TouchUser
    \/ CatchScrapingError

SpecTrigger == InitTrigger /\ [][NextTrigger]_vars

\* Match scores: a job and a profile are drawn, the ingestion loop builds the
\* Job for user u1 with the matchScore calculateMatchScore yields and saves
\* it, and the users' endpoints copy that matchScore into Applications.
InitScore ==
    /\ jobs = [j \in JobIds |-> NoJob]
    /\ apps = [a \in AppIds |-> NoApp]
    /\ stats = [u \in Users |-> 0]
    /\ reqs = [r \in Reqs |-> IdleReq]
    /\ users = [u \in Users |-> OnboardedUser]
    /\ logs = [s \in SessionIds |-> NoLog]
    /\ tasks = [s \in SessionIds |-> IdleTask]
    /\ cancels = [s \in SessionIds |-> None]
    /\ schema = "errors"
    /\ scoring \in [scored : {FALSE}, job : JobInputs, profile : ProfileInputs,
                     parts : {NoParts}, score : {0}]
    /\ response = NoResponse

\* processScrapingResults: job.matchScore = Job.calculateMatchScore(job, user)
\* and job.save().
ScoreJob ==
    /\ ~scoring.scored
    /\ scoring.job \in JobInputs
    /\ LET job == scoring.job
           user == scoring.profile
           score == calculateMatchScore(job, user)
       IN  /\ scoring' = [scoring EXCEPT
                             !.scored = TRUE,
                             !.parts = [skills |-> skillsScore(job, user),
                                        location |-> locationScore(job, user)],
                             !.score = score]
           /\ jobs' = [jobs EXCEPT ![1] = IngestedJob("u1", 1, score)]
    /\ UNCHANGED <<apps, stats, reqs, users, logs, tasks, cancels, schema, response>>

NextScore ==
    \/ ScoreJob
    \/ SaveJob

SpecScore == InitScore /\ [][NextScore]_vars

\* Search and listing: the store after scraping sessions ingested two
\* postings for u1 and one for u2; admins review the Jobs, users and
\* anonymous callers search and list them.
InitList ==
    /\ jobs = [j \in JobIds |->
                 IF j = 1 THEN IngestedJob("u1", 1, 80)
                 ELSE IF j = 2 THEN IngestedJob("u1", 2, 40)
                 ELSE IngestedJob("u2", 1, 40)]
    /\ apps = [a \in AppIds |-> NoApp]
    /\ stats = [u \in Users |-> 0]
    /\ reqs = [r \in Reqs |-> IdleReq]
    /\ users = [u \in Users |-> OnboardedUser]
    /\ logs = [s \in SessionIds |-> NoLog]
    /\ tasks = [s \in SessionIds |-> IdleTask]
    /\ cancels = [s \in SessionIds |-> None]
    /\ schema = "errors"
    /\ scoring = NoScoring
    /\ response = NoResponse

NextList ==
    \/ ApproveJob
    \/ RejectJob
    \/ SearchJobs
    \/ GetJobs

SpecList == InitList /\ [][NextList]_vars

\* ------------------------------------------------------------ properties
TypeOK ==
    /\ \A j \in JobIds :
          /\ jobs[j].adminReviewStatus \in {"pending", "approved", "rejected"}
          /\ jobs[j].applicationStatus \in {"not_applied", "applied"}
          /\ jobs[j].status = "active"
    /\ \A a \in AppIds :
          /\ apps[a].status \in ApplicationStatuses
          /\ apps[a].exists <=> apps[a] # NoApp
          /\ Len(apps[a].timeline) <= MaxTimeline
    /\ \A s \in SessionIds :
          /\ logs[s].status \in ScrapingStatuses
          /\ logs[s].jobsSaved + logs[s].duplicatesSkipped <= MaxPostings
          /\ logs[s].errors <= MaxPostings + 2
          /\ cancels[s] \in ScrapingStatuses \cup {None}
    /\ schema \in SchemaRevisions
    /\ \/ scoring = NoScoring
       \/ /\ scoring.job \in JobInputs
          /\ scoring.profile \in ProfileInputs
          /\ scoring.score \in Nat
    /\ \A u \in Users : stats[u] \in 0..MaxStats
    /\ response.op \in {"none", "searchJobs", "getJobs", "getJobDetails",
                        "getScrapedJobs", "triggerJobScraping"}
    /\ response.code \in {OK, BadRequest, Forbidden, NotFound}
    /\ Len(response.jobs) <= MaxJobs

Last(seq) == seq[Len(seq)]

\* At most one stored Application per (user, job) pair.
AtMostOnePerPair ==
    \A a, b \in AppIds :
        (apps[a].exists /\ apps[b].exists
         /\ apps[a].user = apps[b].user /\ apps[a].job = apps[b].job) => a = b

\* C1 (as claimed): an Application whose status is withdrawn, rejected,
\* offer_rejected or rejected_by_employer keeps that status in every step.
C1_TerminalLock ==
    [][\A a \in AppIds :
          (apps[a].exists /\ apps[a].status \in TerminalStatuses)
              => apps'[a].status = apps[a].status]_vars

\* C2: a step that writes what applyToJobOnBehalf writes for an Application
\* (its appliedBy, its owner's stats.totalApplications, or "applied" into its
\* Job's applicationStatus) starts with that Application approved and ends
\* with it applied, appliedBy an admin, and the counter one higher; so from
\* any other status nothing of it is written.
ApplyWritten(a) ==
    \/ apps'[a].appliedBy # apps[a].appliedBy
    \/ stats'[apps[a].user] # stats[apps[a].user]
    \/ /\ jobs'[apps[a].job].applicationStatus = "applied"
       /\ jobs[apps[a].job].applicationStatus # "applied"

C2_ApplyGate ==
    [][\A a \in AppIds :
          (apps[a].exists /\ apps'[a].exists /\ ApplyWritten(a))
              => /\ apps[a].status = "approved"
                 /\ apps'[a].status = "applied"
                 /\ apps'[a].appliedBy \in Admins
                 /\ Last(apps'[a].timeline).status = "applied"
                 /\ jobs'[apps[a].job].applicationStatus = "applied"
                 /\ stats'[apps[a].user] = stats[apps[a].user] + 1]_vars

C2_Applied ==
    \E a \in AppIds :
        /\ apps[a].exists /\ apps[a].status = "applied"
        /\ apps[a].appliedBy \in Admins
        /\ jobs[apps[a].job].applicationStatus = "applied"
        /\ stats[apps[a].user] = 1

\* C4: when handlers run one at a time, no (user, job) pair has two stored
\* Applications, and for a pair that has one, saveJob (in both revisions) and
\* applyToJob fail with a 4xx answer and insert nothing; the answer is the
\* already-saved-or-applied failure whenever the creation gets as far as the
\* lookup (always for saveJob, for applyToJob when the Job is available).
DuplicateRefused(p) ==
    /\ p.code \in {Conflict, BadRequest}
    /\ p.message = AlreadyApplied
    /\ ~p.insert

C3_OnePerPairUnderRaces ==
    \A a, b \in AppIds :
        (a # b /\ apps[a].exists /\ apps[b].exists)
            => ~(apps[a].user = apps[b].user /\ apps[a].job = apps[b].job)

\* C5 (as claimed): an applied timeline entry is appended, and the owner's
\* stats.totalApplications raised, only in a step that starts with the
\* Application stored as approved; so of two concurrent apply-on-behalf
\* requests for one approved Application only the first one writes, and one
\* approval yields one applied entry and one increment.
C5_OneApplyPerApproval ==
    [][/\ \A a \in AppIds :
             (/\ apps[a].exists /\ apps'[a].exists
              /\ Len(apps'[a].timeline) > Len(apps[a].timeline)
              /\ Last(apps'[a].timeline).status = "applied")
                 => apps[a].status = "approved"
       /\ \A u \in Users :
             stats'[u] > stats[u]
                 => \E a \in AppIds : /\ apps[a].exists /\ apps[a].user = u
                                      /\ apps[a].status = "approved"
                                      /\ apps'[a].status = "applied"]_vars

\* C6: every stored Application has at least as many timeline entries as
\* distinct statuses it has held, and its last timeline entry carries its
\* current status.
C6_TimelineComplete ==
    \A a \in AppIds :
        apps[a].exists
            => /\ Len(apps[a].timeline) >= Cardinality(apps[a].held)
               /\ Len(apps[a].timeline) >= 1
               /\ Last(apps[a].timeline).status = apps[a].status

C6_ThreeStatuses ==
    \E a \in AppIds :
        /\ apps[a].exists /\ Cardinality(apps[a].held) = 3
        /\ apps[a].status = "withdrawn"
        /\ Len(apps[a].timeline) = 3

\* C7 (as claimed): the updatedBy of an Application's latest timeline entry
\* is the account whose request wrote that status (every entry is the latest
\* one in the state its write leads to).
C7_UpdatedByIsActor ==
    \A a \in AppIds :
        apps[a].exists => Last(apps[a].timeline).updatedBy = apps[a].lastBy

\* C8 (as claimed): a stored Application is stored in every later state.
C8_NeverDeleted ==
    [][\A a \in AppIds : apps[a].exists => apps'[a].exists]_vars

\* C9 (as claimed): an Application is inserted only for a Job that is active
\* and approved by an admin at that moment.
C9_CreatedOnlyForAvailableJob ==
    [][\A a \in AppIds :
          (~apps[a].exists /\ apps'[a].exists)
              => JobAvailable(jobs[apps'[a].job])]_vars

\* C10 (as claimed): a ScrapingLog whose stored status is completed, failed
\* or cancelled keeps that status in every step, whatever the interleaving
\* of cancelScraping with the session's task and whichever step of the task
\* fails.
C10_FinalStatusesStay ==
    [][\A s \in SessionIds :
          (logs[s].exists /\ logs[s].status \in FinalStatuses)
              => logs'[s].status = logs[s].status]_vars

\* C11 (as claimed): a cancelScraping call that passes its checks, and so
\* goes on to write status, completedAt and duration and to return true, has
\* read the session as initiated or in_progress; for a session read as
\* completed, failed or cancelled it throws and writes nothing.
C11_CancelOnlyWhileRunning ==
    \A s \in SessionIds :
        cancels[s] # None => cancels[s] \in {"initiated", "in_progress"}

\* C12: when sessions run one after the other, no user has two Jobs with the
\* same (title, company, location); a stored Job is never changed by
\* ingestion; a Job is inserted only when its target user had no Job with
\* that (title, company, location), in earlier batches or earlier in the same
\* one; and a posting the loop does not go on to insert (it goes on only when
\* the user has no such Job) is counted in duplicatesSkipped, once, with the
\* Job collection left as it was.
NoTwinJobs ==
    \A j, k \in JobIds :
        (j # k /\ jobs[j].exists /\ jobs[k].exists)
            => ~(jobs[j].targetUser = jobs[k].targetUser /\ jobs[j].key = jobs[k].key)

HasJob(u, key) ==
    \E j \in JobIds : jobs[j].exists /\ jobs[j].targetUser = u /\ jobs[j].key = key

C12_Dedup ==
    /\ []NoTwinJobs
    /\ [][/\ \A j \in JobIds :
              /\ jobs[j].exists => jobs'[j] = jobs[j]
              /\ (~jobs[j].exists /\ jobs'[j].exists)
                    => ~HasJob(jobs'[j].targetUser, jobs'[j].key)
          /\ \A s \in SessionIds :
              (tasks[s].pc = "find" /\ tasks'[s] # tasks[s])
                  => IF tasks'[s].pc = "create"
                     THEN /\ ~HasJob(tasks[s].user, tasks'[s].posting.key)
                          /\ tasks'[s].duplicatesSkipped = tasks[s].duplicatesSkipped
                     ELSE /\ \E key \in {p.key : p \in Postings} :
                                 HasJob(tasks[s].user, key)
                          /\ tasks'[s].duplicatesSkipped
                                 = tasks[s].duplicatesSkipped + 1
                          /\ jobs' = jobs]_vars

\* Scenario D and the other user: a completed session of u1 that saved one
\* Job and skipped one duplicate, u1 having that one Job, and u2 having a Job
\* of its own with the same (title, company, location).
C12_ScenarioD ==
    \E s \in SessionIds, j, k \in JobIds :
        /\ logs[s].exists /\ logs[s].status = "completed" /\ logs[s].user = "u1"
        /\ logs[s].jobsSaved = 1 /\ logs[s].duplicatesSkipped = 1
        /\ jobs[j].exists /\ jobs[j].targetUser = "u1"
        /\ jobs[k].exists /\ jobs[k].targetUser = "u2"
        /\ jobs[j].key = jobs[k].key

\* C13 (as claimed): the location component of a calculated score is 20
\* exactly when the job's workType is remote or some preferred location of
\* the profile contains, or is contained in, the job's location (letter case
\* aside), and 0 otherwise; a remote job gets the 20 points whatever the
\* profile's preferred locations are.
C13_LocationComponent ==
    scoring.scored
        => scoring.parts.location
              = IF \/ scoring.job.workType = "remote"
                   \/ isLocationMatch(scoring.job, scoring.profile)
                THEN 20 ELSE 0

\* C14 (as claimed): the skills component of a calculated score is
\* 40 * |intersection of the two skill lists, letter case aside| / |job.skills|
\* when both lists are non-empty and 0 otherwise, and so never above 40.
SkillSet(list) == {toLowerCase(list[i]) : i \in DOMAIN list}

C14_SkillsComponent ==
    scoring.scored
        => LET job == scoring.job
               profile == scoring.profile
               sk == scoring.parts.skills
               common == SkillSet(job.skills) \cap SkillSet(profile.skills)
           IN  /\ IF job.skills # <<>> /\ profile.skills # <<>>
                  THEN sk.num * Len(job.skills) = 40 * Cardinality(common) * sk.den
                  ELSE sk.num = 0
               /\ sk.num <= 40 * sk.den

\* C15: a calculated score is an integer from 0 to 100, and so is the
\* matchScore of every stored Job and of every stored Application.
C15_ScoreBounds ==
    /\ scoring.scored => scoring.score \in 0..100
    /\ \A j \in JobIds : jobs[j].exists => jobs[j].matchScore \in 0..100
    /\ \A a \in AppIds : apps[a].exists => apps[a].matchScore \in 0..100

\* A job and profile whose components add up to more than 100: the score is
\* capped, stored on the Job and copied to an Application.
C15_CappedScoreStored ==
    /\ scoring.scored /\ scoring.score = 100
    /\ roundedScore(scoring.job, scoring.profile) > 100
    /\ \E a \in AppIds :
          /\ apps[a].exists /\ apps[a].matchScore = 100
          /\ jobs[apps[a].job].matchScore = 100

\* C16: a step in which a user-role account writes an Application's status
\* either creates that account's own Application at pending_review or moves
\* that account's own Application to withdrawn; and a user-role request for
\* any other target status, for an admin-only operation, or on an
\* Application of another user is refused (400, 403, 404) before any write.
UserRequestsRefused ==
    /\ \A u \in Users : RequireAdminPlan(u).code = Forbidden
    /\ \A u \in Users, a \in AppIds \cup {0} :
          /\ \A st \in ApplicationStatuses \ {"withdrawn"} :
                UserUpdateStatusPlan(u, a, st).code = BadRequest
          /\ (AppExists(a) /\ apps[a].user # u)
                => /\ UserUpdateStatusPlan(u, a, "withdrawn").code = NotFound
                   /\ WithdrawPlan(u, a).code = NotFound

C16_UserAuthority ==
    /\ []UserRequestsRefused
    /\ [][\A a \in AppIds :
              (/\ apps'[a].exists
               /\ ~apps[a].exists \/ apps'[a].status # apps[a].status
               /\ apps'[a].lastBy \in Users)
                 => \/ /\ ~apps[a].exists
                       /\ apps'[a].status = "pending_review"
                       /\ apps'[a].user = apps'[a].lastBy
                    \/ /\ apps[a].exists
                       /\ apps'[a].status = "withdrawn"
                       /\ apps[a].user = apps'[a].lastBy
                       /\ apps'[a].user = apps[a].user]_vars

\* An Application an admin approved and its owner then withdrew, which the
\* other user cannot touch.
C16_OwnerWithdrew ==
    \E a \in AppIds, u \in Users :
        /\ apps[a].exists /\ apps[a].status = "withdrawn"
        /\ "approved" \in apps[a].held
        /\ apps[a].lastBy = apps[a].user
        /\ u # apps[a].user
        /\ WithdrawPlan(u, a).code = NotFound

\* C17 (as claimed): every Job in the answer of searchJobs or getJobs to a
\* caller who is not an admin has status active and adminReviewStatus
\* approved, whatever the filter, sort and paging parameters.
C17_OnlyApprovedListed ==
    \A i \in DOMAIN response.jobs :
        /\ response.jobs[i].status = "active"
        /\ response.jobs[i].adminReviewStatus = "approved"

\* C18 (as claimed): a ScrapingLog is created, and its task gets to call the
\* scraper, only for a user who completed onboarding and whose package has
\* not expired; and the admin's trigger for any other existing user creates
\* nothing and answers without an error.
Eligible(u) == users[u].onboardingCompleted /\ ~users[u].packageExpired

C18_SilentGate ==
    /\ [](\A s \in SessionIds :
             (logs[s].exists \/ tasks[s].pc = "request") => Eligible(logs[s].user))
    /\ [][\A s \in SessionIds :
              (~logs[s].exists /\ logs'[s].exists) => Eligible(logs'[s].user)]_vars
    /\ []((/\ response.op = "triggerJobScraping"
            /\ response.caller \in Admins
            /\ response.target \in Users
            /\ ~Eligible(response.target))
               => response.code = OK)

\* C19: for an Application that is withdrawn, its owner's withdrawApplication
\* and updateApplicationStatus(withdrawn) are both refused (400) before any
\* write; no step appends a withdrawn timeline entry to an Application that
\* is withdrawn already, and no step of a user-role account changes the
\* status or the timeline of a withdrawn Application.
C19_WithdrawnTwice ==
    /\ [](\A a \in AppIds :
             (apps[a].exists /\ apps[a].status = "withdrawn")
                 => /\ WithdrawPlan(apps[a].user, a).code = BadRequest
                    /\ UserUpdateStatusPlan(apps[a].user, a, "withdrawn").code
                          = BadRequest)
    /\ [][\A a \in AppIds :
              (apps[a].exists /\ apps[a].status = "withdrawn")
                  => /\ apps'[a].exists
                     /\ Len(apps'[a].timeline) > Len(apps[a].timeline)
                           => /\ Last(apps'[a].timeline).status # "withdrawn"
                              /\ apps'[a].lastBy \in Admins
                     /\ apps'[a].status # apps[a].status
                           => apps'[a].lastBy \in Admins]_vars

\* Scenario C: an Application its owner withdrew, with one withdrawn entry
\* at the end of its timeline, on which both of the owner's requests fail.
C19_AlreadyWithdrawn ==
    \E a \in AppIds :
        /\ apps[a].exists /\ apps[a].status = "withdrawn"
        /\ apps[a].lastBy = apps[a].user
        /\ Len(apps[a].timeline) = 2
        /\ Last(apps[a].timeline).status = "withdrawn"
        /\ WithdrawPlan(apps[a].user, a).code = BadRequest
        /\ UserUpdateStatusPlan(apps[a].user, a, "withdrawn").code = BadRequest

\* C20 (as claimed): when the save of a posting's Job fails, the loop records
\* one entry in the session's error list and goes on with the next posting
\* (or, after the last one, with the completion of the session); the failure
\* does not end the batch.
C20_PostingFailureTolerated ==
    [][\A s \in SessionIds :
          (/\ tasks[s].pc = "create"
           /\ ~tasks[s].posting.valid
           /\ tasks'[s] # tasks[s])
              => /\ tasks'[s].pc \in {"find", "complete"}
                 /\ tasks'[s].pushed = tasks[s].pushed + 1
                 /\ tasks'[s].remaining = tasks[s].remaining - 1
                 /\ tasks'[s].jobsSaved = tasks[s].jobsSaved]_vars

\* C21 (as claimed): when the call of the scraper fails, the answer of the
\* trigger request stays as it was, and the step of performJobScraping's catch
\* that handles the failure leaves the session stored as failed, with
\* completedAt set and at least one entry in its error list.
ScraperCallFailed(s) ==
    /\ tasks[s].pc = "catch"
    /\ tasks[s].status = "in_progress"
    /\ tasks[s].posting = NoPosting

C21_ScraperFailureRecorded ==
    [][\A s \in SessionIds :
          (ScraperCallFailed(s) /\ tasks'[s] # tasks[s])
              => /\ logs'[s].status = "failed"
                 /\ logs'[s].completedAt
                 /\ logs'[s].errors >= 1
                 /\ response' = response]_vars

\* C22 (as claimed): the results stored for a completed session add up:
\* jobsSaved + duplicatesSkipped + errors = totalJobsFound.  (The service
\* compares the counts nowhere and logs no discrepancy, so for its sessions
\* the claim is the equation.)
C22_ResultsAddUp ==
    \A s \in SessionIds :
        (logs[s].exists /\ logs[s].status = "completed")
            => logs[s].jobsSaved + logs[s].duplicatesSkipped + logs[s].resultsErrors
                  = logs[s].totalJobsFound

\* ---------------------------------------------------------- job review
\* One scraping session ingesting postings for u1 while the users' endpoints
\* and the admin's job review are being called.
ScheduleFirstScraping ==
    /\ \A s \in SessionIds : ~logs[s].exists
    /\ ScheduleJobScraping

InitReview ==
    /\ jobs = [j \in JobIds |-> NoJob]
    /\ apps = [a \in AppIds |-> NoApp]
    /\ stats = [u \in Users |-> 0]
    /\ reqs = [r \in Reqs |-> IdleReq]
    /\ users = [u \in Users |-> IF u = "u1" THEN OnboardedUser ELSE NewUser]
    /\ logs = [s \in SessionIds |-> NoLog]
    /\ tasks = [s \in SessionIds |-> IdleTask]
    /\ cancels = [s \in SessionIds |-> None]
    /\ schema = "errors"
    /\ scoring = NoScoring
    /\ response = NoResponse

NextReview ==
    \/ ScheduleFirstScraping
    \/ PerformJobScraping
    \/ ScraperAnswers
    \/ ScraperFails
    \/ FindExistingJob
    \/ CreateJob
    \/ CompleteScraping
    \/ TouchUser
    \/ CatchScrapingError
    \/ ApproveJob
    \/ RejectJob
    \/ SaveJob
    \/ UnsaveJob
    \/ ApplyToJob
    \/ WithdrawApplication

SpecReview == InitReview /\ [][NextReview]_vars

\* C23: a Job is inserted with adminReviewStatus pending; a step that changes
\* the adminReviewStatus of a stored Job is an approveJob or rejectJob that
\* passed its checks for an admin account, writes the verdict on that one Job
\* and leaves every other Job, the Applications, the counters and the
\* scraping sessions as they were (so it is no step of the ingestion loop and
\* no write of a user's endpoint); and requireAdmin, which runs before both
\* handlers, refuses every user-role account.
C23_ReviewOnlyByAdmin ==
    /\ [](\A u \in Users : RequireAdminPlan(u).code = Forbidden)
    /\ [][\A j \in JobIds :
              /\ (~jobs[j].exists /\ jobs'[j].exists)
                    => jobs'[j].adminReviewStatus = "pending"
              /\ (jobs[j].exists
                  /\ jobs'[j].adminReviewStatus # jobs[j].adminReviewStatus)
                    => /\ \E ad \in Admins, verdict \in {"approved", "rejected"} :
                             /\ RequireAdminPlan(ad).code = OK
                             /\ ReviewJobPlan(ad, j, verdict).code = OK
                             /\ jobs' = [jobs EXCEPT ![j].adminReviewStatus = verdict]
                       /\ UNCHANGED <<apps, stats, users, logs, tasks>>]_vars

\* A Job the session ingested, an admin approved, its user applied to and
\* withdrew from, and an admin then rejected, next to a Job of the same batch
\* that is still pending.
C23_ReviewedJob ==
    \E j, k \in JobIds, a \in AppIds, s \in SessionIds :
        /\ logs[s].status = "completed" /\ logs[s].jobsSaved = 2
        /\ jobs[j].exists /\ jobs[j].adminReviewStatus = "rejected"
        /\ jobs[k].exists /\ jobs[k].adminReviewStatus = "pending"
        /\ apps[a].exists /\ apps[a].job = j /\ apps[a].status = "withdrawn"

\* -------------------------------------------------------- score snapshot
\* A job the scraper found for u1 and the profiles u1 has over time: the
\* ingestion loop scores the job against the profile of the moment, the
\* users' and the admin's endpoints create and move Applications for it, and
\* updateMatchScore scores it again after the profile was edited.
SnapshotJob ==
    [skills |-> << <<"p">>, <<"s">> >>, location |-> <<"N", "Y">>,
     workType |-> "remote", jobType |-> "full_time"]

SnapshotProfiles ==
    {p \in ProfileInputs :
        /\ p.skills \in {<<>>, << <<"p">> >>}
        /\ p.preferredLocations = <<>>
        /\ p.preferredJobTypes = {"full_time"}
        /\ p.preferredWorkTypes = {"remote"}}

\* A refresh that also rewrites the matchScore of the Job's Applications.
UpdatedApplications_Refreshed(j, score) ==
    [a \in AppIds |->
        IF apps[a].exists /\ apps[a].job = j
        THEN [apps[a] EXCEPT !.matchScore = score] ELSE apps[a]]

\* The Applications after updateMatchScore: it saves the Job alone.
UpdatedApplications(j, score) == apps

\* jobSchema.methods.updateMatchScore on the Job the loop scored, the user's
\* profile being what it is by then.
UpdateMatchScore ==
    \E user \in SnapshotProfiles :
        /\ scoring.scored /\ jobs[1].exists
        /\ LET score == calculateMatchScore(scoring.job, user)
           IN  /\ scoring' = [scoring EXCEPT
                                 !.profile = user,
                                 !.parts = [skills |-> skillsScore(scoring.job, user),
                                            location |-> locationScore(scoring.job, user)],
                                 !.score = score]
               /\ jobs' = [jobs EXCEPT ![1].matchScore = score]
               /\ apps' = UpdatedApplications(1, score)
        /\ UNCHANGED <<stats, reqs, users, logs, tasks, cancels, schema, response>>

InitSnapshot ==
    /\ jobs = [j \in JobIds |-> NoJob]
    /\ apps = [a \in AppIds |-> NoApp]
    /\ stats = [u \in Users |-> 0]
    /\ reqs = [r \in Reqs |-> IdleReq]
    /\ users = [u \in Users |-> OnboardedUser]
    /\ logs = [s \in SessionIds |-> NoLog]
    /\ tasks = [s \in SessionIds |-> IdleTask]
    /\ cancels = [s \in SessionIds |-> None]
    /\ schema = "errors"
    /\ scoring \in [scored : {FALSE}, job : {SnapshotJob}, profile : SnapshotProfiles,
                     parts : {NoParts}, score : {0}]
    /\ response = NoResponse

NextSnapshot ==
    \/ ScoreJob
    \/ UpdateMatchScore
    \/ ApproveJob
    \/ SaveJob
    \/ ApplyToJob
    \/ WithdrawApplication
    \/ AddApplicationNotes
    \/ AdminUpdateStatus
    \/ ApplyToJobOnBehalf

SpecSnapshot == InitSnapshot /\ [][NextSnapshot]_vars

\* C24: an Application is inserted with the matchScore its Job has at that
\* moment, and no step changes the matchScore of a stored Application: not
\* the owner's withdrawal or notes, not the admin's status update or
\* apply-on-behalf, and not updateMatchScore, which changes the Job's score.
C24_ScoreSnapshot ==
    [][\A a \in AppIds :
          /\ (~apps[a].exists /\ apps'[a].exists)
                => apps'[a].matchScore = jobs[apps'[a].job].matchScore
          /\ (apps[a].exists /\ apps'[a].exists)
                => apps'[a].matchScore = apps[a].matchScore]_vars

\* An Application with notes that was approved, applied on behalf and
\* withdrawn, whose Job has been scored again since and now has another
\* matchScore.
C24_StaleSnapshot ==
    \E a \in AppIds :
        /\ apps[a].exists /\ apps[a].userNotes
        /\ {"approved", "applied", "withdrawn"} \subseteq apps[a].held
        /\ apps[a].matchScore # jobs[apps[a].job].matchScore

\* ------------------------------------------------------------- progress
\* The sessions of SpecIngest with a task that keeps running: the event loop
\* resumes the task after each of its awaits, and the scraper call returns
\* or fails (axios times out after five minutes).
TaskStep ==
    \/ PerformJobScraping
    \/ ScraperAnswers
    \/ ScraperFails
    \/ FindExistingJob
    \/ CreateJob
    \/ CompleteScraping
    \/ TouchUser
    \/ CatchScrapingError

SpecIngestFair == SpecIngest /\ WF_vars(TaskStep)

\* The Job collection of the model is full and a task is about to insert:
\* where the bound MaxJobs, not the service, stops the task.
StoreFull ==
    \E s \in SessionIds :
        tasks[s].pc = "create" /\ tasks[s].posting.valid /\ FreeJobs = {}

\* C25 (as claimed): every ScrapingLog that is created is eventually stored
\* as completed, failed or cancelled (in every behaviour that MaxJobs does
\* not cut short).
C25_SessionsEnd ==
    \A s \in SessionIds :
        logs[s].exists ~> (logs[s].status \in FinalStatuses \/ StoreFull)

\* C26 (as claimed): whatever the interleaving of the tasks of two sessions
\* of one user, the user has at most one Job for each (title, company,
\* location).
C26_NoTwinsUnderRaces ==
    \A u \in Users, key \in {p.key : p \in Postings} :
        Cardinality({j \in JobIds : /\ jobs[j].exists
                                    /\ jobs[j].targetUser = u
                                    /\ jobs[j].key = key}) <= 1

\* C27 (as claimed): once a session is stored as cancelled, its task inserts
\* no Job, and no step writes its stored status or results again.
C27_CancelledStaysUntouched ==
    [][\A s \in SessionIds :
          (logs[s].exists /\ logs[s].status = "cancelled")
              => /\ (tasks[s].pc = "create" /\ tasks'[s] # tasks[s]) => jobs' = jobs
                 /\ logs'[s].status = "cancelled"
                 /\ logs'[s].totalJobsFound = logs[s].totalJobsFound
                 /\ logs'[s].jobsSaved = logs[s].jobsSaved
                 /\ logs'[s].duplicatesSkipped = logs[s].duplicatesSkipped
                 /\ logs'[s].resultsErrors = logs[s].resultsErrors]_vars

\* C28 (as claimed): a Job whose applicationStatus is applied has an
\* Application of its target user whose status is applied or one of the
\* statuses after it (not pending_review, approved, rejected or withdrawn).
C28_AppliedJobHasAppliedApplication ==
    \A j \in JobIds :
        (jobs[j].exists /\ jobs[j].applicationStatus = "applied")
            => \E a \in AppIds :
                  /\ apps[a].exists
                  /\ apps[a].user = jobs[j].targetUser /\ apps[a].job = j
                  /\ apps[a].status \notin
                        {"pending_review", "approved", "rejected", "withdrawn"}

\* ----------------------------------------------------------- onboarding
\* user.controller completeOnboardingStep in its two revisions.  The first
\* accepts the three steps of stepOrder and moves onboardingStep to the one
\* after the step named in the request; the second accepts basic_info and
\* job_preferences and, once the user is saved with onboardingCompleted set,
\* schedules a scraping session without awaiting it.
OnboardingSteps == <<"basic_info", "resume_upload", "job_preferences">>

OnboardingStepInputs ==
    {"basic_info", "resume_upload", "job_preferences", "completed"}

stepIndex(step) == CHOOSE i \in DOMAIN OnboardingSteps : OnboardingSteps[i] = step

\* The User as the handler saves it, for a step its revision accepts.
SteppedUser(user, step, rev) ==
    IF rev = 1
    THEN IF stepIndex(step) + 1 <= Len(OnboardingSteps)
         THEN [user EXCEPT !.onboardingStep = OnboardingSteps[stepIndex(step) + 1]]
         ELSE [user EXCEPT !.onboardingStep = "completed",
                           !.onboardingCompleted = TRUE]
    ELSE IF step = "basic_info"
         THEN [user EXCEPT !.onboardingStep = "resume_upload"]
         ELSE [user EXCEPT !.onboardingStep = "completed",
                           !.onboardingCompleted = TRUE]

StepAccepted(step, rev) ==
    IF rev = 1 THEN step \in {"basic_info", "resume_upload", "job_preferences"}
               ELSE step \in {"basic_info", "job_preferences"}

CompleteOnboardingStep ==
    \E u \in Users, step \in OnboardingStepInputs, rev \in {1, 2} :
        IF ~StepAccepted(step, rev)
        THEN UNCHANGED vars
        ELSE LET user == SteppedUser(users[u], step, rev)
             IN  /\ users' = [users EXCEPT ![u] = user]
                 /\ IF rev = 2 /\ user.onboardingCompleted /\ canUserScrapeJobs(user)
                    THEN CreateSession(u)
                    ELSE UNCHANGED <<logs, tasks>>
                 /\ UNCHANGED <<jobs, apps, stats, reqs, cancels, schema, scoring,
                                response>>

InitOnboarding ==
    /\ jobs = [j \in JobIds |-> NoJob]
    /\ apps = [a \in AppIds |-> NoApp]
    /\ stats = [u \in Users |-> 0]
    /\ reqs = [r \in Reqs |-> IdleReq]
    /\ users = [u \in Users |-> NewUser]
    /\ logs = [s \in SessionIds |-> NoLog]
    /\ tasks = [s \in SessionIds |-> IdleTask]
    /\ cancels = [s \in SessionIds |-> None]
    /\ schema \in SchemaRevisions
    /\ scoring = NoScoring
    /\ response = NoResponse

NextOnboarding ==
    \/ CompleteOnboardingStep

SpecOnboarding == InitOnboarding /\ [][NextOnboarding]_vars

\* C29 (as claimed): a user's onboardingCompleted is true exactly when the
\* user's onboardingStep is completed.
C29_CompletedIffLastStep ==
    \A u \in Users :
        users[u].onboardingCompleted <=> users[u].onboardingStep = "completed"

\* ------------------------------------------------------- read operations
\* The four read operations on Jobs, called by users, admins and anonymous
\* callers while admins review the Jobs of InitList.
NextRead ==
    \/ ApproveJob
    \/ RejectJob
    \/ SearchJobs
    \/ GetJobs
    \/ GetJobDetails
    \/ GetScrapedJobs

SpecRead == InitList /\ [][NextRead]_vars

\* C30 (as claimed): every Job in the answer of a read operation to a caller
\* who is not an admin (a user or an anonymous caller) has that caller as its
\* targetUser.
C30_JobsScopedToOwner ==
    response.caller \notin Admins
        => \A i \in DOMAIN response.jobs :
              response.jobs[i].targetUser = response.caller

====
